---- MODULE Spec2Model ----
(***************************************************************************)
(* CosHash (src/src/coshash.cpp): the digest function cos_hash and its     *)
(* helpers, as a state machine.  A run of cos_hash is one process; the     *)
(* model holds two of them (Runs), each with its own input and locals, so  *)
(* that properties of one call and of two calls can both be stated.        *)
(*                                                                         *)
(* A uint32_t is the pair <<hi, lo>> of its two 16-bit halves (the model   *)
(* checker's integers are 32-bit signed, so the value itself does not      *)
(* fit); every operation below is the C++ operation modulo 2^32.           *)
(***************************************************************************)
EXTENDS Integers, Sequences, FiniteSets

\* ---------------------------------------------------------------- bounds

\* Longest input hashed; the long inputs have lengths MaxLen-2 .. MaxLen.
MaxLen == 65
\* Every byte sequence over ShortBytes of length <= MaxShort is an input.
MaxShort == 2

\* ------------------------------------------------------------- constants

BLOCK_SIZE == 64
STATE_SIZE == 16

\* 2^16: a uint32_t is kept as two 16-bit halves
Half == 2 ^ 16
Runs == {1, 2}

\* ------------------------------------------------------- uint32_t words

Pow2(k) == 2 ^ k

U32(hi, lo) == <<hi, lo>>
Zero32 == U32(0, 0)
FromByte(x) == U32(0, x)
FromInt(n) == U32(n \div Half, n % Half)

RECURSIVE BitXor(_, _, _)
\* a ^ b on n-bit values
BitXor(a, b, n) ==
  IF n = 0 THEN 0
  ELSE ((a + b) % 2) + 2 * BitXor(a \div 2, b \div 2, n - 1)

RECURSIVE BitOr(_, _, _)
\* a | b on n-bit values
BitOr(a, b, n) ==
  IF n = 0 THEN 0
  ELSE (IF a % 2 = 1 \/ b % 2 = 1 THEN 1 ELSE 0)
         + 2 * BitOr(a \div 2, b \div 2, n - 1)

Xor32(x, y) == U32(BitXor(x[1], y[1], 16), BitXor(x[2], y[2], 16))
Or32(x, y) == U32(BitOr(x[1], y[1], 16), BitOr(x[2], y[2], 16))

\* x + y (mod 2^32)
Add32(x, y) ==
  LET s == x[2] + y[2]
  IN  U32((x[1] + y[1] + (s \div Half)) % Half, s % Half)

\* 0 - x (mod 2^32): what static_cast<uint32_t> makes of a negative int32_t
Neg32(x) == Add32(Xor32(x, U32(Half - 1, Half - 1)), U32(0, 1))

\* x << k (mod 2^32), 0 <= k <= 31
Shl32(x, k) ==
  IF k < 16
  THEN U32(((x[1] * Pow2(k)) % Half) + (x[2] \div Pow2(16 - k)),
           (x[2] * Pow2(k)) % Half)
  ELSE U32((x[2] * Pow2(k - 16)) % Half, 0)

\* x >> k, 0 <= k <= 31
Shr32(x, k) ==
  IF k < 16
  THEN U32(x[1] \div Pow2(k),
           ((x[1] % Pow2(k)) * Pow2(16 - k)) + (x[2] \div Pow2(k)))
  ELSE U32(0, x[1] \div Pow2(k - 16))

\* the full 32-bit product of two 16-bit values
Mul16(a, b) ==
  LET t == a * (b \div 256)
      l == a * (b % 256) + (t % 256) * 256
  IN  U32(((l \div Half) + (t \div 256)) % Half, l % Half)

\* x * y (mod 2^32)
Mul32(x, y) ==
  LET p == Mul16(x[2], y[2])
  IN  U32((p[1] + Mul16(x[1], y[2])[2] + Mul16(x[2], y[1])[2]) % Half, p[2])

\* x % m for a small m > 0
Mod32(x, m) == ((x[1] % m) * (Half % m) + (x[2] % m)) % m

\* ------------------------------------------------------------ pad_input

RECURSIVE ZeroFill(_)
\* coshash.cpp:14-16: push 0 while the size is not a multiple of BLOCK_SIZE
ZeroFill(padded) ==
  IF Len(padded) % BLOCK_SIZE # 0 THEN ZeroFill(Append(padded, 0)) ELSE padded

\* pad_input_aligned: an input that already fills its blocks is left as it is
pad_input_aligned(input) ==
  IF Len(input) > 0 /\ Len(input) % BLOCK_SIZE = 0 THEN input
  ELSE ZeroFill(Append(input, 128))

\* pad_input_nomark: zero fill without the 0x80 marker
pad_input_nomark(input) == ZeroFill(Append(input, 0))

\* coshash.cpp:8-19
pad_input(input) == ZeroFill(Append(input, 128))

\* ---------------------------------------------------------- derive_seed

\* 0x9e3779b9
GOLDEN == U32(40503, 31161)

\* coshash.cpp:26: seed ^= input[i] + 0x9e3779b9 + (seed << 6) + (seed >> 2)
SeedStep(seed, x) ==
  Xor32(seed, Add32(Add32(Add32(FromByte(x), GOLDEN), Shl32(seed, 6)),
                    Shr32(seed, 2)))

RECURSIVE SeedFold(_, _, _)
\* coshash.cpp:25-27: the loop from byte i on.  (The test on s only makes the
\* evaluator compute s before it recurses.)
SeedFold(seed, input, i) ==
  IF i > Len(input) THEN seed
  ELSE LET s == SeedStep(seed, input[i])
       IN  IF s[1] >= 0 THEN SeedFold(s, input, i + 1) ELSE s

RECURSIVE SumFold(_, _, _)
SumFold(seed, input, i) ==
  IF i > Len(input) THEN seed
  ELSE LET s == Add32(seed, FromByte(input[i]))
       IN  IF s[1] >= 0 THEN SumFold(s, input, i + 1) ELSE s

\* derive_seed_sum: the length plus the sum of the bytes
derive_seed_sum(input) == SumFold(FromInt(Len(input)), input, 1)

\* coshash.cpp:23-29
derive_seed(input) == SeedFold(FromInt(Len(input)), input, 1)

\* ---------------------------------------------------------- initial_mix

\* 0x85ebca6b
MIX1 == U32(34283, 51819)
\* 0xc2b2ae35
MIX2 == U32(49842, 44597)

initial_mix(seed, index) ==
  LET v0 == Xor32(seed, Mul32(FromInt(index), MIX1))
      v1 == Xor32(v0, Shr32(v0, 16))
      v2 == Mul32(v1, MIX1)
      v3 == Xor32(v2, Shr32(v2, 13))
      v4 == Mul32(v3, MIX2)
  IN  Xor32(v4, Shr32(v4, 16))

\* -------------------------------------------------------- derive_params

\* block[k] of the C++ vector (0-based)
At(block, k) == block[k + 1]

\* b0 << 24 | b1 << 16 | b2 << 8 | b3
Pack4(b0, b1, b2, b3) ==
  Or32(Or32(Or32(Shl32(FromByte(b0), 24), Shl32(FromByte(b1), 16)),
            Shl32(FromByte(b2), 8)),
       FromByte(b3))

\* 0x1f1f1f1f, 0x3c3c3c3c, 0x7a7a7a7a
DEFAULT_A == U32(7967, 7967)
DEFAULT_B == U32(15420, 15420)
DEFAULT_C == U32(31354, 31354)

\* one parameter: bytes k..k+3 when the block has k+4 bytes, else the default
Param(block, k, dflt) ==
  IF Len(block) >= k + 4
  THEN Pack4(At(block, k), At(block, k + 1), At(block, k + 2), At(block, k + 3))
  ELSE dflt

derive_params(block) ==
  [a |-> Param(block, 0, DEFAULT_A),
   b |-> Param(block, 4, DEFAULT_B),
   c |-> Param(block, 8, DEFAULT_C)]

\* whether derive_params falls back to a default for this block
ParamsFallback(block) == Len(block) < 12

\* ---------------------------------------------------------- rotate_left

\* What the build makes of the two undefined operations of the code: a
\* double outside int32_t's range converted to int32_t (coshash.cpp:153) and
\* a uint32_t shifted right by 32 (coshash.cpp:68 with shift = 0).
\*   cast:  "indefinite" (x86 cvttsd2si: 0x80000000), "saturate" (ARM fcvtzs)
\*   shift: "masked" (x86: the count is taken mod 32), "zero" (ARM: 0)
Builds == [cast : {"indefinite", "saturate"}, shift : {"masked", "zero"}]

\* value >> k as the build computes it, 0 <= k <= 32
ShrBuild(bld, value, k) ==
  IF k < 32 THEN Shr32(value, k)
  ELSE IF bld.shift = "masked" THEN value ELSE Zero32

rotate_left(bld, value, shift) ==
  Or32(Shl32(value, shift), ShrBuild(bld, value, 32 - shift))

\* --------------------------------------------------- derive_permutation

\* 1664525 and 1013904223
LCG_MUL == U32(25, 26125)
LCG_ADD == U32(15470, 62303)

Identity == [k \in 0 .. STATE_SIZE - 1 |-> k]

RECURSIVE PermSeedFold(_, _, _)
\* coshash.cpp:82-84: seed = (seed << 8) | block[i] over the first <= 4 bytes
PermSeedFold(s, block, k) ==
  IF k < Len(block) /\ k < 4
  THEN PermSeedFold(Or32(Shl32(s, 8), FromByte(At(block, k))), block, k + 1)
  ELSE s

PermSeed(block) == PermSeedFold(Zero32, block, 0)

LcgNext(s) == Add32(Mul32(s, LCG_MUL), LCG_ADD)

\* Swap_assign: permutation[i] = permutation[j] in place of the swap
Swap_assign(p, x, y) == [p EXCEPT ![x] = p[y]]

Swap(p, x, y) == [p EXCEPT ![x] = p[y], ![y] = p[x]]

\* one iteration of the Fisher-Yates loop (coshash.cpp:86-88) at index k
ShuffleOnce(p, s, k) ==
  LET s2 == LcgNext(s)
      j == Mod32(s2, k + 1)
  IN  [perm |-> Swap(p, k, j), seed |-> s2]

\* ------------------------------------------------------- compress_state

\* (word >> shift) & 0xFF
ByteOf(word, shift) == Shr32(word, shift)[2] % 256

WordBytes(word) ==
  <<ByteOf(word, 24), ByteOf(word, 16), ByteOf(word, 8), ByteOf(word, 0)>>

RECURSIVE CompressFrom(_, _)
CompressFrom(st, k) ==
  IF k = STATE_SIZE THEN <<>>
  ELSE WordBytes(st[k]) \o CompressFrom(st, k + 1)

\* compress_state_256: the 256-bit digest of the comment at coshash.cpp:94,
\* the first 8 words only
compress_state_256(st) == SubSeq(CompressFrom(st, 0), 1, 32)

compress_state(st) == CompressFrom(st, 0)

\* -------------------------------------------------- cos_hash: the phases

\* CurrentBlock_typo: the slice ends at b + BLOCK_SIZE
CurrentBlock_typo(padded, blk) ==
  SubSeq(padded, blk * BLOCK_SIZE + 1, blk + BLOCK_SIZE)

\* coshash.cpp:125-127: the bytes [b*BLOCK_SIZE, (b+1)*BLOCK_SIZE)
CurrentBlock(padded, blk) ==
  SubSeq(padded, blk * BLOCK_SIZE + 1, (blk + 1) * BLOCK_SIZE)

RECURSIVE PartialSegment(_, _, _)
\* coshash.cpp:142-144: the remaining bytes of a short block
PartialSegment(seg, block, j) ==
  IF j < Len(block)
  THEN PartialSegment(Or32(Shl32(seg, 8), FromByte(At(block, j))), block, j + 1)
  ELSE seg

\* whether word k of the block takes the partial branch (coshash.cpp:140)
SegmentPartial(block, k) == ~(k * 4 + 4 <= Len(block))

Segment(block, k) ==
  IF ~SegmentPartial(block, k)
  THEN Pack4(At(block, k * 4), At(block, k * 4 + 1),
             At(block, k * 4 + 2), At(block, k * 4 + 3))
  ELSE PartialSegment(Zero32, block, k * 4)

\* coshash.cpp:133-147
AbsorbAll(st, block) ==
  [k \in 0 .. STATE_SIZE - 1 |-> Add32(st[k], Segment(block, k))]

\* The sine of coshash.cpp:152 is one fixed function of its argument, whose
\* values the model cannot compute except sin(0) = 0.  It is kept as an
\* oracle: a table of sin_val in halves (-2 .. 2 for -1 .. 1), indexed by a
\* key of the argument, chosen once when a run first needs it.
SineKeys == {0, 1}
SineNums == {-2, -1, 1, 2}
Oracles == [SineKeys -> SineNums]
NoSine == <<>>

SineKey(a, temp) == (a[2] + temp[2]) % 2

\* static_cast<uint32_t>(static_cast<int32_t>(floor(sin_val * c))) for
\* sin_val = num / 2
MixCast(bld, num, c) ==
  LET half == Shr32(c, 1)
      top == U32(32768, 0)
  IN  CASE num = 0 -> Zero32
        [] num = 1 -> half
        [] num = -1 -> Neg32(Add32(half, U32(0, c[2] % 2)))
        [] num = 2 ->
             IF c[1] < 32768 THEN c
             ELSE IF bld.cast = "saturate" THEN U32(32767, Half - 1) ELSE top
        [] num = -2 ->
             IF c[1] < 32768 \/ c = top THEN Neg32(c) ELSE top

\* whether sin(a * temp) * c is known without the oracle: it is 0
SineKnown(a, temp, c) == a = Zero32 \/ temp = Zero32 \/ c = Zero32

\* coshash.cpp:151-154 for one word
MixWord(bld, oracle, s, p) ==
  LET temp == Xor32(s, p.b)
      num == IF SineKnown(p.a, temp, p.c) THEN 0
             ELSE oracle[SineKey(p.a, temp)]
  IN  Add32(s, MixCast(bld, num, p.c))

MixAll(bld, oracle, st, p) ==
  [k \in 0 .. STATE_SIZE - 1 |-> MixWord(bld, oracle, st[k], p)]

NeedsSine(st, p) ==
  \E k \in 0 .. STATE_SIZE - 1 : ~SineKnown(p.a, Xor32(st[k], p.b), p.c)

\* coshash.cpp:160-162
Permuted(st, p) == [k \in 0 .. STATE_SIZE - 1 |-> st[p[k]]]

\* state[i] & 0x1F
RotOf(word) == word[2] % 32

\* Neighbor_prev: the word before k instead of the word after it
Neighbor_prev(st, k) == st[(k + STATE_SIZE - 1) % STATE_SIZE]

\* coshash.cpp:167: state[(i + 1) % STATE_SIZE], read from the array as it is
Neighbor(st, k) == st[(k + 1) % STATE_SIZE]

\* coshash.cpp:167-170 at index k, in place
DiffuseOnce(bld, st, k) ==
  LET neighbor == Neighbor(st, k)
      rot == RotOf(st[k])
      rotated == rotate_left(bld, neighbor, rot)
  IN  [st EXCEPT ![k] = Xor32(st[k], rotated)]

\* NumBlocks_short: one less than a whole number of blocks
NumBlocks_short(padded) == (Len(padded) - 1) \div BLOCK_SIZE

\* coshash.cpp:112
NumBlocks(padded) == Len(padded) \div BLOCK_SIZE

\* ---------------------------------------------------------------- inputs

ShortBytes == {0, 128}
Fill(n, x) == [k \in 1 .. n |-> x]
ShortInputs == UNION {[1 .. n -> ShortBytes] : n \in 0 .. MaxShort}
LongInputs == {Fill(n, x) : n \in (MaxLen - 2) .. MaxLen, x \in ShortBytes}
\* two pairs of inputs on which derive_seed agrees
SeedTwins == {<<1, 2, 66>>, <<2, 66, 1>>, <<10, 0, 233, 22>>, <<10, 0, 233, 22, 247>>}
Inputs == ShortInputs \cup LongInputs \cup SeedTwins

\* ----------------------------------------------------------------- state

VARIABLES
  build,          \* the build's outcome for the undefined operations
  sine,           \* the sine oracle, NoSine until a run needs it
  pc,             \* each run's position in cos_hash
  input,          \* cos_hash's argument
  paddedInput, num_blocks, seed, state, b, current_block, params,
  perm, permSeed, i,   \* derive_permutation's vector and seed; loop index
  hash_output,    \* cos_hash's result
  \* history, written and never read by the program's steps:
  blockLog,       \* per block taken: its index, its bytes, the state in and out
  mixed,          \* the state the permute phase started from
  permuted,       \* the state the diffuse phase started from
  fallback,       \* whether a default parameter or partial segment was used
  shifts          \* the right-shift amounts rotate_left has performed

globals == <<build, sine>>
locals == <<paddedInput, num_blocks, seed, state, b, current_block, params,
            perm, permSeed, i, hash_output>>
history == <<blockLog, mixed, permuted, fallback, shifts>>
vars == <<globals, pc, input, locals, history>>

None == <<>>

\* InitialState_static: the state vector is a static buffer, and a call
\* mixes its initial words into what the call before left there
InitialState_static(s) ==
  LET left == {q \in Runs : state[q] # None}
  IN  [k \in 0 .. STATE_SIZE - 1 |->
         IF left = {} THEN initial_mix(s, k)
         ELSE Xor32(initial_mix(s, k), state[CHOOSE q \in left : TRUE][k])]

\* coshash.cpp:117-121
InitialState(s) == [k \in 0 .. STATE_SIZE - 1 |-> initial_mix(s, k)]

InitRun ==
  /\ build \in Builds
  /\ sine = NoSine
  /\ paddedInput = [r \in Runs |-> None]
  /\ num_blocks = [r \in Runs |-> 0]
  /\ seed = [r \in Runs |-> Zero32]
  /\ state = [r \in Runs |-> None]
  /\ b = [r \in Runs |-> 0]
  /\ current_block = [r \in Runs |-> None]
  /\ params = [r \in Runs |-> None]
  /\ perm = [r \in Runs |-> None]
  /\ permSeed = [r \in Runs |-> Zero32]
  /\ i = [r \in Runs |-> 0]
  /\ hash_output = [r \in Runs |-> None]
  /\ blockLog = [r \in Runs |-> <<>>]
  /\ mixed = [r \in Runs |-> None]
  /\ permuted = [r \in Runs |-> None]
  /\ fallback = [r \in Runs |-> FALSE]
  /\ shifts = [r \in Runs |-> {}]

\* one call of cos_hash (run 1); run 2 is not started
Init ==
  /\ InitRun
  /\ \E x \in Inputs : input = [r \in Runs |-> IF r = 1 THEN x ELSE <<>>]
  /\ pc = [r \in Runs |-> IF r = 1 THEN "pad" ELSE "idle"]

\* two calls on inputs chosen independently
InitPair ==
  /\ InitRun
  /\ input \in [Runs -> Inputs]
  /\ pc = [r \in Runs |-> "pad"]

\* two calls on the same input
InitTwin ==
  /\ InitRun
  /\ \E x \in Inputs : input = [r \in Runs |-> x]
  /\ pc = [r \in Runs |-> "pad"]

\* --------------------------------------------------------------- actions

\* coshash.cpp:111-112
Pad(r) ==
  /\ pc[r] = "pad"
  /\ paddedInput' = [paddedInput EXCEPT ![r] = pad_input(input[r])]
  /\ num_blocks' = [num_blocks EXCEPT ![r] = NumBlocks(paddedInput'[r])]
  /\ pc' = [pc EXCEPT ![r] = "seed"]
  /\ UNCHANGED <<globals, input, seed, state, b, current_block, params, perm,
                 permSeed, i, hash_output, history>>

\* coshash.cpp:114
DeriveSeed(r) ==
  /\ pc[r] = "seed"
  /\ seed' = [seed EXCEPT ![r] = derive_seed(input[r])]
  /\ pc' = [pc EXCEPT ![r] = "init"]
  /\ UNCHANGED <<globals, input, paddedInput, num_blocks, state, b,
                 current_block, params, perm, permSeed, i, hash_output, history>>

\* coshash.cpp:117-121, and the loop's b = 0
InitState(r) ==
  /\ pc[r] = "init"
  /\ state' = [state EXCEPT ![r] = InitialState(seed[r])]
  /\ b' = [b EXCEPT ![r] = 0]
  /\ pc' = [pc EXCEPT ![r] = "loop"]
  /\ UNCHANGED <<globals, input, paddedInput, num_blocks, seed, current_block,
                 params, perm, permSeed, i, hash_output, history>>

\* coshash.cpp:124-130: the loop test, the block's slice and its parameters
TakeBlock(r) ==
  /\ pc[r] = "loop"
  /\ b[r] < num_blocks[r]
  /\ current_block' = [current_block EXCEPT ![r] = CurrentBlock(paddedInput[r], b[r])]
  /\ params' = [params EXCEPT ![r] = derive_params(current_block'[r])]
  /\ fallback' = [fallback EXCEPT ![r] = @ \/ ParamsFallback(current_block'[r])]
  /\ blockLog' = [blockLog EXCEPT ![r] =
                    Append(@, [index |-> b[r], block |-> current_block'[r],
                               in |-> state[r], out |-> None])]
  /\ pc' = [pc EXCEPT ![r] = "absorb"]
  /\ UNCHANGED <<globals, input, paddedInput, num_blocks, seed, state, b, perm,
                 permSeed, i, hash_output, mixed, permuted, shifts>>

\* coshash.cpp:133-147
Absorb(r) ==
  /\ pc[r] = "absorb"
  /\ state' = [state EXCEPT ![r] = AbsorbAll(@, current_block[r])]
  /\ fallback' = [fallback EXCEPT ![r] =
                    @ \/ \E k \in 0 .. STATE_SIZE - 1 : SegmentPartial(current_block[r], k)]
  /\ pc' = [pc EXCEPT ![r] = "mix"]
  /\ UNCHANGED <<globals, input, paddedInput, num_blocks, seed, b, current_block,
                 params, perm, permSeed, i, hash_output, blockLog, mixed,
                 permuted, shifts>>

\* coshash.cpp:150-155
NonlinearMix(r) ==
  /\ pc[r] = "mix"
  /\ \E o \in IF sine = NoSine /\ NeedsSine(state[r], params[r])
              THEN Oracles ELSE {sine} :
       /\ sine' = o
       /\ state' = [state EXCEPT ![r] = MixAll(build, o, @, params[r])]
  /\ pc' = [pc EXCEPT ![r] = "perm"]
  /\ UNCHANGED <<build, input, paddedInput, num_blocks, seed, b, current_block,
                 params, perm, permSeed, i, hash_output, history>>

\* coshash.cpp:75-84: derive_permutation up to its shuffle loop
PermInit(r) ==
  /\ pc[r] = "perm"
  /\ perm' = [perm EXCEPT ![r] = Identity]
  /\ permSeed' = [permSeed EXCEPT ![r] = PermSeed(current_block[r])]
  /\ i' = [i EXCEPT ![r] = STATE_SIZE - 1]
  /\ pc' = [pc EXCEPT ![r] = "shuffle"]
  /\ UNCHANGED <<globals, input, paddedInput, num_blocks, seed, state, b,
                 current_block, params, hash_output, history>>

\* coshash.cpp:85-89: one iteration of the shuffle
ShuffleStep(r) ==
  /\ pc[r] = "shuffle"
  /\ i[r] > 0
  /\ LET nxt == ShuffleOnce(perm[r], permSeed[r], i[r])
     IN  /\ perm' = [perm EXCEPT ![r] = nxt.perm]
         /\ permSeed' = [permSeed EXCEPT ![r] = nxt.seed]
  /\ i' = [i EXCEPT ![r] = @ - 1]
  /\ UNCHANGED <<globals, pc, input, paddedInput, num_blocks, seed, state, b,
                 current_block, params, hash_output, history>>

\* coshash.cpp:158-163: the shuffle is over; newState[i] = state[perm[i]]
Permute(r) ==
  /\ pc[r] = "shuffle"
  /\ i[r] = 0
  /\ mixed' = [mixed EXCEPT ![r] = state[r]]
  /\ state' = [state EXCEPT ![r] = Permuted(@, perm[r])]
  /\ permuted' = [permuted EXCEPT ![r] = state'[r]]
  /\ pc' = [pc EXCEPT ![r] = "diffuse"]
  /\ UNCHANGED <<globals, input, paddedInput, num_blocks, seed, b, current_block,
                 params, perm, permSeed, i, hash_output, blockLog, fallback, shifts>>

\* coshash.cpp:166-171: one iteration of the diffuse loop
DiffuseStep(r) ==
  /\ pc[r] = "diffuse"
  /\ i[r] < STATE_SIZE
  /\ state' = [state EXCEPT ![r] = DiffuseOnce(build, @, i[r])]
  /\ shifts' = [shifts EXCEPT ![r] = @ \cup {32 - RotOf(state[r][i[r]])}]
  /\ i' = [i EXCEPT ![r] = @ + 1]
  /\ UNCHANGED <<globals, pc, input, paddedInput, num_blocks, seed, b,
                 current_block, params, perm, permSeed, hash_output, blockLog,
                 mixed, permuted, fallback>>

\* coshash.cpp:124, 172: the block is done, ++b
EndBlock(r) ==
  /\ pc[r] = "diffuse"
  /\ i[r] = STATE_SIZE
  /\ b' = [b EXCEPT ![r] = @ + 1]
  /\ blockLog' = [blockLog EXCEPT ![r][Len(blockLog[r])].out = state[r]]
  /\ pc' = [pc EXCEPT ![r] = "loop"]
  /\ UNCHANGED <<globals, input, paddedInput, num_blocks, seed, state,
                 current_block, params, perm, permSeed, i, hash_output, mixed,
                 permuted, fallback, shifts>>

\* coshash.cpp:124, 176: the loop is over; compress_state
Compress(r) ==
  /\ pc[r] = "loop"
  /\ ~(b[r] < num_blocks[r])
  /\ hash_output' = [hash_output EXCEPT ![r] = compress_state(state[r])]
  /\ pc' = [pc EXCEPT ![r] = "done"]
  /\ UNCHANGED <<globals, input, paddedInput, num_blocks, seed, state, b,
                 current_block, params, perm, permSeed, i, history>>

Step(r) ==
  \/ Pad(r)
  \/ DeriveSeed(r)
  \/ InitState(r)
  \/ TakeBlock(r)
  \/ Absorb(r)
  \/ NonlinearMix(r)
  \/ PermInit(r)
  \/ ShuffleStep(r)
  \/ Permute(r)
  \/ DiffuseStep(r)
  \/ EndBlock(r)
  \/ Compress(r)

Next == \E r \in Runs : Step(r)

Spec == Init /\ [][Next]_vars

\* pad_input and derive_seed applied to two inputs
NextFns == \E r \in Runs : Pad(r) \/ DeriveSeed(r)

SpecPair == InitPair /\ [][NextFns]_vars

\* How far a run has come: block, phase, iteration.
PhaseNo(p) ==
  CASE p = "pad" -> 0 [] p = "seed" -> 1 [] p = "init" -> 2 [] p = "loop" -> 3
    [] p = "absorb" -> 4 [] p = "mix" -> 5 [] p = "perm" -> 6
    [] p = "shuffle" -> 7 [] p = "diffuse" -> 8 [] OTHER -> 9

Rank(r) ==
  b[r] * 1000 + PhaseNo(pc[r]) * 40
    + (CASE pc[r] = "shuffle" -> STATE_SIZE - 1 - i[r]
         [] pc[r] = "diffuse" -> i[r]
         [] OTHER -> 0)

\* two calls on one input stepped side by side: the run that is behind steps
NextTwin == \E r \in Runs : (\A q \in Runs : Rank(r) <= Rank(q)) /\ Step(r)

SpecTwin == InitTwin /\ [][NextTwin]_vars

\* ============================================================== properties

Started(r) == pc[r] # "idle"
InBlock(r) == pc[r] \in {"absorb", "mix", "perm", "shuffle", "diffuse"}
HasState(r) == pc[r] \in {"loop", "absorb", "mix", "perm", "shuffle", "diffuse", "done"}

IsWord(w) == Len(w) = 2 /\ w[1] \in 0 .. Half - 1 /\ w[2] \in 0 .. Half - 1

\* one of the steps of cos_hash can be taken: the guards of Step(r)
Ready(r) ==
  \/ pc[r] \in {"pad", "seed", "init", "loop", "absorb", "mix", "perm"}
  \/ pc[r] = "shuffle" /\ i[r] \in 0 .. STATE_SIZE - 1
  \/ pc[r] = "diffuse" /\ i[r] \in 0 .. STATE_SIZE

C2_PadShape ==
  \A r \in Runs :
    Started(r) /\ pc[r] # "pad" =>
      LET n == Len(input[r])
          p == paddedInput[r]
      IN  /\ Len(p) = 64 * ((n \div 64) + 1)
          /\ Len(p) > 0 /\ Len(p) % 64 = 0
          /\ Len(p) >= n + 1 /\ Len(p) <= n + 64
          /\ SubSeq(p, 1, n) = input[r]
          /\ p[n + 1] = 128
          /\ \A k \in n + 2 .. Len(p) : p[k] = 0
          /\ n = 0 => p = [k \in 1 .. 64 |-> IF k = 1 THEN 128 ELSE 0]

\* a 64-byte input has been padded to 128 bytes
C2_Witness ==
  /\ pc[1] = "seed"
  /\ Len(input[1]) = 64
  /\ Len(paddedInput[1]) = 128
  /\ paddedInput[1][65] = 128

\* C3: cos_hash takes the 64-byte blocks of the padded input in ascending
\* index order, each once, n \div 64 + 1 of them for an input of n bytes, and
\* each block starts from the state the block before it produced (the first
\* from the initial state; the last one's result is what is compressed).
C3_BlockOrder ==
  \A r \in Runs :
    LET log == blockLog[r]
        n == Len(input[r])
    IN  /\ Len(log) <= (n \div 64) + 1
        /\ \A k \in 1 .. Len(log) :
             /\ log[k].index = k - 1
             /\ log[k].block = SubSeq(paddedInput[r], 64 * (k - 1) + 1, 64 * k)
             /\ k = 1 => log[k].in = [j \in 0 .. 15 |-> initial_mix(seed[r], j)]
             /\ k > 1 => log[k - 1].out # None /\ log[k].in = log[k - 1].out
        /\ pc[r] = "done" =>
             /\ Len(log) = (n \div 64) + 1
             /\ log[Len(log)].out = state[r]
             /\ (n = 0 \/ n = 63) => Len(log) = 1
             /\ (n = 64 \/ n = 65) => Len(log) = 2

\* a 64-byte input has been hashed in two blocks
C3_Witness ==
  /\ pc[1] = "done"
  /\ Len(input[1]) = 64
  /\ Len(blockLog[1]) = 2
  /\ blockLog[1][2].in = blockLog[1][1].out

TwinLocals(r) ==
  <<pc[r], paddedInput[r], num_blocks[r], seed[r], state[r], b[r],
    current_block[r], params[r], perm[r], permSeed[r], i[r], hash_output[r]>>

TwinAgree ==
  input[1] = input[2] /\ Rank(1) = Rank(2) => TwinLocals(1) = TwinLocals(2)

\* a step leaves alone the input and the locals of every run that did not move
NoInterference ==
  \A r \in Runs :
    /\ input'[r] = input[r]
    /\ (pc'[r] = pc[r] /\ i'[r] = i[r]) => TwinLocals(r)' = TwinLocals(r)

IsBijection(p) ==
  /\ DOMAIN p = 0 .. STATE_SIZE - 1
  /\ \A k \in 0 .. STATE_SIZE - 1 : p[k] \in 0 .. STATE_SIZE - 1
  /\ \A k, l \in 0 .. STATE_SIZE - 1 : k # l => p[k] # p[l]

Count(st, w) == Cardinality({k \in 0 .. STATE_SIZE - 1 : st[k] = w})

SameMultiset(s1, s2) ==
  \A k \in 0 .. STATE_SIZE - 1 :
    /\ Count(s1, s1[k]) = Count(s2, s1[k])
    /\ Count(s1, s2[k]) = Count(s2, s2[k])

\* C5: at every step of the shuffle and after it, the permutation is 16
\* distinct integers in 0 .. 15, and the permuted state holds the same words
\* as the state before it, word i being the old word perm[i].
C5_Permutation ==
  \A r \in Runs :
    /\ pc[r] \in {"shuffle", "diffuse"} => IsBijection(perm[r])
    /\ pc[r] = "diffuse" =>
         /\ SameMultiset(permuted[r], mixed[r])
         /\ \A k \in 0 .. STATE_SIZE - 1 : permuted[r][k] = mixed[r][perm[r][k]]

\* a finished shuffle that moved words, applied to the state
C5_Witness ==
  /\ pc[1] = "diffuse"
  /\ i[1] = 0
  /\ perm[1] # Identity
  /\ state[1] # mixed[1]
  /\ state[1] = permuted[1]

IsReordering(x, y) ==
  /\ Len(x) = Len(y)
  /\ \A v \in 0 .. 255 :
       Cardinality({k \in 1 .. Len(x) : x[k] = v})
         = Cardinality({k \in 1 .. Len(y) : y[k] = v})

IsProperPrefix(x, y) == Len(x) < Len(y) /\ x = SubSeq(y, 1, Len(x))

SeedsKnown == \A r \in Runs : pc[r] = "init"

C7_FullBlocks ==
  \A r \in Runs :
    /\ ~fallback[r]
    /\ InBlock(r) =>
         /\ Len(current_block[r]) = 64
         /\ ~ParamsFallback(current_block[r])
         /\ \A k \in 0 .. STATE_SIZE - 1 : ~SegmentPartial(current_block[r], k)
         /\ params[r].a # DEFAULT_A /\ params[r].b # DEFAULT_B /\ params[r].c # DEFAULT_C

\* the second block of an input has been absorbed in full
C7_Witness ==
  /\ pc[1] = "mix"
  /\ b[1] = 1
  /\ Len(current_block[1]) = 64
  /\ ~fallback[1]

\* bit k of a word, and the word of a bit vector
BitAt(w, k) == IF k < 16 THEN (w[2] \div Pow2(k)) % 2 ELSE (w[1] \div Pow2(k - 16)) % 2

RECURSIVE BitSum(_, _, _)
BitSum(f, lo, n) == IF n = 0 THEN 0 ELSE f[lo] + 2 * BitSum(f, lo + 1, n - 1)

\* the circular left rotation of a 32-bit word by n bits, bit by bit
RotateBits(w, n) ==
  LET f == [k \in 0 .. 31 |-> BitAt(w, (k + 32 - n) % 32)]
  IN  U32(BitSum(f, 16, 16), BitSum(f, 0, 16))

\* C8: the diffuse phase runs in place in index order: word k < 15 becomes
\* permuted[k] XOR rotl(permuted[k+1], permuted[k] AND 0x1F), reading the
\* neighbour not yet diffused; word 15 reads the already diffused word 0.
C8_Diffuse ==
  \A r \in Runs :
    pc[r] = "diffuse" =>
      \A k \in 0 .. STATE_SIZE - 1 :
        IF k < i[r]
        THEN LET nb == IF k < STATE_SIZE - 1 THEN permuted[r][k + 1] ELSE state[r][0]
             IN  state[r][k] = Xor32(permuted[r][k],
                                     RotateBits(nb, permuted[r][k][2] % 32))
        ELSE state[r][k] = permuted[r][k]

\* the phase is over and word 15 has read a word 0 that diffusion had changed
C8_Witness ==
  /\ pc[1] = "diffuse"
  /\ i[1] = STATE_SIZE
  /\ state[1][0] # permuted[1][0]
  /\ state[1][15] # permuted[1][15]

\* C9: in every call the diffuse phase makes, rot is in 0 .. 31 and
\* rotate_left is the circular rotation (the identity for rot = 0), and no
\* shift of a 32-bit word by 32 or more bits is ever performed.
C9_RotateDefined ==
  \A r \in Runs :
    /\ pc[r] = "diffuse" /\ i[r] < STATE_SIZE =>
         LET rot == RotOf(state[r][i[r]])
             nb == Neighbor(state[r], i[r])
         IN  /\ rot \in 0 .. 31
             /\ rotate_left(build, nb, rot) = RotateBits(nb, rot)
             /\ rotate_left(build, nb, 0) = nb
    /\ \A s \in shifts[r] : s < 32

\* the input recovered from its padded form: without the trailing zero bytes
\* and the 0x80 before them
Unpad(p) ==
  LET m == CHOOSE k \in 1 .. Len(p) : p[k] # 0 /\ \A j \in k + 1 .. Len(p) : p[j] = 0
  IN  SubSeq(p, 1, m - 1)

PadsKnown == \A r \in Runs : pc[r] # "pad"

\* C10: two different inputs never have the same padded form (so a 63-byte
\* and a 64-byte input never do), and the input is what is left of the padded
\* form without its trailing zero bytes and the last 0x80.
C10_PadInjective ==
  PadsKnown =>
    /\ input[1] # input[2] => paddedInput[1] # paddedInput[2]
    /\ \A r \in Runs :
         /\ \E k \in 1 .. Len(paddedInput[r]) : paddedInput[r][k] = 128
         /\ Unpad(paddedInput[r]) = input[r]

\* a 63-byte input of zeros and a 64-byte input of zeros, both padded
C10_Witness ==
  /\ PadsKnown
  /\ input[1] = Fill(63, 0)
  /\ input[2] = Fill(64, 0)
  /\ paddedInput[1] # paddedInput[2]
====
